---- MODULE Spec2Model ----
(***************************************************************************)
(* Model of the crop editor of Immich-MeuralCanvas-Cropper:                *)
(*   crop-engine.js   (initCropRectangle, setupCropHandlers, performCrop), *)
(*   ui-controller.js (updateStage, resize listeners),                     *)
(*   image-loader.js / main.js (selectImage, button handlers),             *)
(*   api-service.js   (syncWithImmich, resetImage).                        *)
(*                                                                         *)
(* JavaScript numbers are modelled as exact rationals <<n, d>> (d > 0, in  *)
(* lowest terms): the rounding of IEEE doubles is abstracted, every        *)
(* Math.floor / parseInt of the code is kept.                              *)
(***************************************************************************)
EXTENDS Integers, Sequences, FiniteSets, TLC

VARIABLES
    APP_STATE,          \* window.APP_STATE
    ELEMENTS,           \* the DOM state read and written through window.ELEMENTS
    isSelectingImage,   \* image-loader.js:247
    syncInProgress,     \* api-service.js (meural-service.js:280)
    handlers,           \* the closures created by the calls of setupCropHandlers
    tasks,              \* pending callbacks: timers, animation frames, responses
    hist                \* history of the session (read by the properties only)

vars == <<APP_STATE, ELEMENTS, isSelectingImage, syncInProgress, handlers, tasks, hist>>

-----------------------------------------------------------------------------
(* Rational arithmetic *)

Abs(x) == IF x < 0 THEN -x ELSE x

RECURSIVE GCD(_, _)
GCD(a, b) == IF b = 0 THEN a ELSE GCD(b, a % b)

Q(n, d) ==
    LET s == IF d < 0 THEN -1 ELSE 1
        g == GCD(Abs(n), Abs(d))
    IN  <<(s * n) \div g, (s * d) \div g>>

I(n) == <<n, 1>>
\* sums and products are reduced before they are formed
RAdd(a, b) ==
    LET g == GCD(a[2], b[2])
    IN  Q(a[1] * (b[2] \div g) + b[1] * (a[2] \div g), (a[2] \div g) * b[2])
RSub(a, b) == RAdd(a, <<-b[1], b[2]>>)
RMul(a, b) ==
    LET g1 == GCD(Abs(a[1]), b[2])
        g2 == GCD(Abs(b[1]), a[2])
    IN  IF a[1] = 0 \/ b[1] = 0 THEN <<0, 1>>
        ELSE <<(a[1] \div g1) * (b[1] \div g2), (a[2] \div g2) * (b[2] \div g1)>>
RDiv(a, b) == RMul(a, IF b[1] < 0 THEN <<-b[2], -b[1]>> ELSE <<b[2], b[1]>>)
RLt(a, b) == a[1] * b[2] < b[1] * a[2]
RLe(a, b) == a[1] * b[2] <= b[1] * a[2]
RMin(a, b) == IF RLt(b, a) THEN b ELSE a
RMax(a, b) == IF RLt(a, b) THEN b ELSE a
Zero == I(0)
RPos(a) == a[1] > 0
RNeg(a) == a[1] < 0

\* Math.floor
Floor(a) == a[1] \div a[2]
\* parseInt(<number> + 'px') || 0 : the decimal digits before the point
ParseInt(a) == IF a[1] >= 0 THEN a[1] \div a[2] ELSE -((-a[1]) \div a[2])

-----------------------------------------------------------------------------
(* Configuration: config-service.js, GET /dimensions *)

PortraitDims == [width |-> 1080, height |-> 1920]
LandscapeDims == [width |-> 1920, height |-> 1080]
getDimensions(orientation) ==
    IF orientation = "portrait" THEN PortraitDims ELSE LandscapeDims
getAspectRatio(orientation) ==
    Q(getDimensions(orientation).width, getDimensions(orientation).height)

StageOrientation(stage) == IF stage = 1 THEN "portrait" ELSE "landscape"

ZeroCrop == [x |-> Zero, y |-> Zero, width |-> Zero, height |-> Zero]

-----------------------------------------------------------------------------
(* The DOM as the code reads it *)

Handles == {"top-left", "top-right", "bottom-left", "bottom-right"}

\* flex centring of the image in #editor-container (crop-engine.js:101-104);
\* getBoundingClientRect of the image relative to the container's
imgRect(E) ==
    [left   |-> RDiv(RSub(I(E.container.w), E.img.width), I(2)),
     top    |-> RDiv(RSub(I(E.container.h), E.img.height), I(2)),
     width  |-> E.img.width,
     height |-> E.img.height]

\* element.style.width = v + 'px' : a negative length is not a valid value of
\* width/height and the declaration keeps its previous value
SetLength(old, v) == IF RNeg(v) THEN old ELSE v

\* setupCropHandlers.getImageBounds; offsetWidth/offsetHeight are the layout
\* size rounded to an integer
getImageBounds(E) ==
    [left   |-> E.dataset.imgLeft,
     top    |-> E.dataset.imgTop,
     width  |-> IF E.dataset.imgWidth # Zero THEN E.dataset.imgWidth
                ELSE I(Floor(RAdd(E.img.width, Q(1, 2)))),
     height |-> IF E.dataset.imgHeight # Zero THEN E.dataset.imgHeight
                ELSE I(Floor(RAdd(E.img.height, Q(1, 2))))]

\* a world is the whole program state, threaded through the handlers
World == [A |-> APP_STATE, E |-> ELEMENTS, sel |-> isSelectingImage,
          sip |-> syncInProgress, H |-> handlers, T |-> tasks, hist |-> hist]

Commit(world) ==
    \E w \in {world} :
        /\ APP_STATE' = w.A
        /\ ELEMENTS' = w.E
        /\ isSelectingImage' = w.sel
        /\ syncInProgress' = w.sip
        /\ handlers' = w.H
        /\ tasks' = w.T
        /\ hist' = w.hist

Task(kind, img, ori, data) == [kind |-> kind, img |-> img, ori |-> ori, data |-> data]
NoData == ZeroCrop
Schedule(w, t) == [w EXCEPT !.T = @ \cup {t}]

-----------------------------------------------------------------------------
(* crop-engine.js: initCropRectangle *)

\* imgWidth / imgHeight > aspectRatio, with the IEEE result of a zero height
WiderThan(imgWidth, imgHeight, aspectRatio) ==
    IF imgHeight = Zero THEN RPos(imgWidth)
    ELSE RLt(aspectRatio, RDiv(imgWidth, imgHeight))

\* lines 192-219: the stored crop scaled by display / natural size
RestoredRect(savedCrop, b, naturalWidth, naturalHeight) ==
    LET scaleX == RDiv(b.width, I(naturalWidth))
        scaleY == RDiv(b.height, I(naturalHeight))
        cropWidth == RMin(RMul(savedCrop.width, scaleX), b.width)
        cropHeight == RMin(RMul(savedCrop.height, scaleY), b.height)
        cropX0 == RAdd(b.left, RMul(savedCrop.x, scaleX))
        cropY0 == RAdd(b.top, RMul(savedCrop.y, scaleY))
        cropX == IF RLt(RAdd(b.left, b.width), RAdd(cropX0, cropWidth))
                 THEN RSub(RAdd(b.left, b.width), cropWidth) ELSE cropX0
        cropY == IF RLt(RAdd(b.top, b.height), RAdd(cropY0, cropHeight))
                 THEN RSub(RAdd(b.top, b.height), cropHeight) ELSE cropY0
    IN  [left |-> cropX, top |-> cropY, width |-> cropWidth, height |-> cropHeight]

\* the default placed at the top-left corner of the image
DefaultRect_TopLeft(b, aspectRatio) ==
    LET wide == WiderThan(b.width, b.height, aspectRatio)
    IN  [left   |-> b.left,
         top    |-> b.top,
         width  |-> IF wide THEN RMul(b.height, aspectRatio) ELSE b.width,
         height |-> IF wide THEN b.height ELSE RDiv(b.width, aspectRatio)]

\* lines 220-239: the centred default
DefaultRect(b, aspectRatio) ==
    LET wide == WiderThan(b.width, b.height, aspectRatio)
        w0 == IF wide THEN RMul(b.height, aspectRatio) ELSE b.width
        h0 == IF wide THEN b.height ELSE RDiv(b.width, aspectRatio)
        cropWidth == RMin(w0, b.width)
        cropHeight == RMin(h0, b.height)
    IN  [left   |-> RAdd(b.left, RDiv(RSub(b.width, cropWidth), I(2))),
         top    |-> RAdd(b.top, RDiv(RSub(b.height, cropHeight), I(2))),
         width  |-> cropWidth,
         height |-> cropHeight]

StoreCrop(A, stage, crop) ==
    IF stage = 1 THEN [A EXCEPT !.portraitCrop = crop]
    ELSE IF stage = 2 THEN [A EXCEPT !.landscapeCrop = crop]
    ELSE A

initCropRectangle(w, orientation) ==
    IF ~w.E.img.complete \/ w.E.img.naturalWidth = 0
    THEN Schedule(w, Task("retryInit", "-", orientation, NoData))
    ELSE
      LET b == imgRect(w.E)
          currentStage == w.A.currentStage
          savedCrop == IF currentStage = 1 THEN w.A.portraitCrop
                       ELSE w.A.landscapeCrop
          r == IF RPos(savedCrop.width) /\ RPos(savedCrop.height)
               THEN RestoredRect(savedCrop, b, w.E.img.naturalWidth,
                                 w.E.img.naturalHeight)
               ELSE DefaultRect(b, getAspectRatio(orientation))
          crop == [x |-> RSub(r.left, b.left), y |-> RSub(r.top, b.top),
                   width |-> r.width, height |-> r.height]
          E1 == [w.E EXCEPT !.rect = [left |-> r.left, top |-> r.top,
                                      width |-> SetLength(@.width, r.width),
                                      height |-> SetLength(@.height, r.height),
                                      shown |-> TRUE]]
      IN  Schedule([w EXCEPT !.E = E1, !.A = StoreCrop(w.A, currentStage, crop)],
                   Task("setup", "-", "-", NoData))

-----------------------------------------------------------------------------
(* crop-engine.js: updateOverlayPosition, updateCropValues *)

\* lines 320-345: the overlay is (re)shown, its clip path follows the rectangle
updateOverlayPosition(E) == [E EXCEPT !.overlayShown = TRUE]

updateCropValues(w) ==
    LET imgLeft == w.E.dataset.imgLeft
        imgTop == w.E.dataset.imgTop
        crop == [x      |-> RSub(I(ParseInt(w.E.rect.left)), imgLeft),
                 y      |-> RSub(I(ParseInt(w.E.rect.top)), imgTop),
                 width  |-> I(ParseInt(w.E.rect.width)),
                 height |-> I(ParseInt(w.E.rect.height))]
    IN  [w EXCEPT !.A = StoreCrop(w.A, w.A.currentStage, crop)]

-----------------------------------------------------------------------------
(* crop-engine.js: setupCropHandlers *)

\* the variables of one call of setupCropHandlers (lines 357-361)
NewClosure ==
    [isDragging |-> FALSE, isResizing |-> FALSE, currentHandle |-> "none",
     startX |-> 0, startY |-> 0, startLeft |-> 0, startTop |-> 0,
     startWidth |-> 0, startHeight |-> 0]

\* lines 374-395: mousedown / touchstart on the rectangle itself
BodyDown(c, E, clientX, clientY) ==
    [c EXCEPT !.isDragging = TRUE,
              !.startX = clientX, !.startY = clientY,
              !.startLeft = ParseInt(E.rect.left),
              !.startTop = ParseInt(E.rect.top)]

\* lines 399-424: mousedown / touchstart on a handle
HandleDown(c, E, handle, clientX, clientY) ==
    [c EXCEPT !.isResizing = TRUE, !.currentHandle = handle,
              !.startX = clientX, !.startY = clientY,
              !.startLeft = ParseInt(E.rect.left),
              !.startTop = ParseInt(E.rect.top),
              !.startWidth = ParseInt(E.rect.width),
              !.startHeight = ParseInt(E.rect.height)]

Clamp(v, lo, hi) == RMax(lo, RMin(v, hi))

\* lines 446-460: the move branch
MoveRect(c, rect, b, dx, dy) ==
    [rect EXCEPT
       !.left = Clamp(I(c.startLeft + dx), b.left,
                      RSub(RAdd(b.left, b.width), I(ParseInt(rect.width)))),
       !.top = Clamp(I(c.startTop + dy), b.top,
                     RSub(RAdd(b.top, b.height), I(ParseInt(rect.height))))]

\* lines 481-501: size and position from the dragged handle
FloorWidth == 50

\* the size and position without the floor of the width
HandleRect_NoFloor(c, aspectRatio, dx) ==
    LET grow == c.currentHandle \in {"bottom-right", "top-right"}
        newWidth == I(IF grow THEN c.startWidth + dx ELSE c.startWidth - dx)
        newHeight == RDiv(newWidth, aspectRatio)
        onLeft == c.currentHandle \in {"bottom-left", "top-left"}
        onTop == c.currentHandle \in {"top-right", "top-left"}
    IN  [width  |-> newWidth,
         height |-> newHeight,
         left   |-> IF onLeft THEN RSub(I(c.startLeft + c.startWidth), newWidth)
                    ELSE I(c.startLeft),
         top    |-> IF onTop THEN RSub(I(c.startTop + c.startHeight), newHeight)
                    ELSE I(c.startTop)]

HandleRect(c, aspectRatio, dx) ==
    LET grow == c.currentHandle \in {"bottom-right", "top-right"}
        raw == IF grow THEN c.startWidth + dx ELSE c.startWidth - dx
        newWidth == I(IF raw < FloorWidth THEN FloorWidth ELSE raw)
        newHeight == RDiv(newWidth, aspectRatio)
        onLeft == c.currentHandle \in {"bottom-left", "top-left"}
        onTop == c.currentHandle \in {"top-right", "top-left"}
    IN  [width  |-> newWidth,
         height |-> newHeight,
         left   |-> IF onLeft THEN RSub(I(c.startLeft + c.startWidth), newWidth)
                    ELSE I(c.startLeft),
         top    |-> IF onTop THEN RSub(I(c.startTop + c.startHeight), newHeight)
                    ELSE I(c.startTop)]

\* lines 504-509
ClampLeft(r, b, aspectRatio) ==
    IF RLt(r.left, b.left)
    THEN LET newWidth == RSub(r.width, RSub(b.left, r.left))
         IN  [r EXCEPT !.left = b.left, !.width = newWidth,
                       !.height = RDiv(newWidth, aspectRatio)]
    ELSE r

\* lines 511-516
ClampTop(r, b, aspectRatio) ==
    IF RLt(r.top, b.top)
    THEN LET newHeight == RSub(r.height, RSub(b.top, r.top))
         IN  [r EXCEPT !.top = b.top, !.height = newHeight,
                       !.width = RMul(newHeight, aspectRatio)]
    ELSE r

\* lines 518-521
ClampRight(r, b, aspectRatio) ==
    IF RLt(RAdd(b.left, b.width), RAdd(r.left, r.width))
    THEN LET newWidth == RSub(RAdd(b.left, b.width), r.left)
         IN  [r EXCEPT !.width = newWidth, !.height = RDiv(newWidth, aspectRatio)]
    ELSE r

\* lines 523-526
ClampBottom(r, b, aspectRatio) ==
    IF RLt(RAdd(b.top, b.height), RAdd(r.top, r.height))
    THEN LET newHeight == RSub(RAdd(b.top, b.height), r.top)
         IN  [r EXCEPT !.height = newHeight, !.width = RMul(newHeight, aspectRatio)]
    ELSE r

\* lines 464-532: the resize branch, the rectangle it computes
ResizeRect(c, b, aspectRatio, dx) ==
    ClampBottom(ClampRight(ClampTop(ClampLeft(HandleRect(c, aspectRatio, dx),
        b, aspectRatio), b, aspectRatio), b, aspectRatio), b, aspectRatio)

\* lines 441-537
handleMoveResize(c, A, E, clientX, clientY) ==
    LET b == getImageBounds(E)
        dx == clientX - c.startX
        dy == clientY - c.startY
    IN  IF c.isDragging
        THEN updateOverlayPosition([E EXCEPT !.rect = MoveRect(c, E.rect, b, dx, dy)])
        ELSE IF c.isResizing /\ c.currentHandle # "none"
        THEN LET r == ResizeRect(c, b,
                        getAspectRatio(StageOrientation(A.currentStage)), dx)
             IN  updateOverlayPosition(
                   [E EXCEPT !.rect = [@ EXCEPT
                        !.width = SetLength(@, r.width),
                        !.height = SetLength(@, r.height),
                        !.left = r.left, !.top = r.top]])
        ELSE E

\* lines 540-566: mouseup (withCheck) and lines 569-579: touchend
Release(c, w, withCheck) ==
    IF c.isDragging \/ c.isResizing
    THEN LET b == getImageBounds(w.E)
             cropLeft == I(ParseInt(w.E.rect.left))
             cropTop == I(ParseInt(w.E.rect.top))
             cropWidth == I(ParseInt(w.E.rect.width))
             cropHeight == I(ParseInt(w.E.rect.height))
             newLeft == Clamp(cropLeft, b.left, RSub(RAdd(b.left, b.width), cropWidth))
             newTop == Clamp(cropTop, b.top, RSub(RAdd(b.top, b.height), cropHeight))
             E1 == IF withCheck /\ (newLeft # cropLeft \/ newTop # cropTop)
                   THEN [w.E EXCEPT !.rect.left = newLeft, !.rect.top = newTop]
                   ELSE w.E
         IN  updateCropValues([w EXCEPT !.E = updateOverlayPosition(E1)])
    ELSE w

Released(c) ==
    IF c.isDragging \/ c.isResizing
    THEN [c EXCEPT !.isDragging = FALSE, !.isResizing = FALSE,
                   !.currentHandle = "none"]
    ELSE c

\* every registered listener set receives the event, in registration order
RECURSIVE MoveAll(_, _, _, _, _, _)
MoveAll(H, i, A, E, clientX, clientY) ==
    IF i > Len(H) THEN E
    ELSE MoveAll(H, i + 1, A, handleMoveResize(H[i], A, E, clientX, clientY),
                 clientX, clientY)

RECURSIVE ReleaseAll(_, _, _, _)
ReleaseAll(H, i, w, withCheck) ==
    IF i > Len(H) THEN w
    ELSE ReleaseAll(H, i + 1, Release(H[i], w, withCheck), withCheck)

-----------------------------------------------------------------------------
(* crop-engine.js: forceImageFit and performCrop *)

FitMargin == 40

\* lines 81-98: the image's size after the fit
FitSize(container, naturalWidth, naturalHeight) ==
    LET scaleX == Q(container.w - FitMargin, naturalWidth)
        scaleY == Q(container.h - FitMargin, naturalHeight)
        scale == RMin(scaleX, scaleY)
    IN  [width  |-> I(Floor(RMul(I(naturalWidth), scale))),
         height |-> I(Floor(RMul(I(naturalHeight), scale)))]

\* lines 47-108; the animation frame and the timer of lines 110-154 are the
\* task "fitApply"
forceImageFit(w) ==
    IF ~w.E.img.complete \/ w.E.img.naturalWidth = 0
    THEN [w EXCEPT !.E.img.onload = "fit",
                   !.E.img.width = IF w.E.img.shown THEN I(w.E.img.naturalWidth) ELSE Zero,
                   !.E.img.height = IF w.E.img.shown THEN I(w.E.img.naturalHeight) ELSE Zero]
    ELSE LET t == FitSize(w.E.container, w.E.img.naturalWidth, w.E.img.naturalHeight)
         IN  Schedule([w EXCEPT !.E.img.width = IF w.E.img.shown THEN t.width ELSE Zero,
                                !.E.img.height = IF w.E.img.shown THEN t.height ELSE Zero],
                      Task("fitApply", "-", "-", NoData))

\* lines 115-153
fitApply(w) ==
    LET b == imgRect(w.E)
        w1 == [w EXCEPT !.E.overlayShown = TRUE,
                        !.E.dataset = [imgLeft |-> b.left, imgTop |-> b.top,
                                       imgWidth |-> b.width, imgHeight |-> b.height]]
    IN  IF w.E.rect.shown /\ w.A.currentStage \in {1, 2}
        THEN initCropRectangle(w1, StageOrientation(w.A.currentStage))
        ELSE w1

NaN == <<0, 0>>

\* lines 629-649: the rectangle sent to the backend
ScaledCrop(crop, E) ==
    LET naturalWidth == I(E.img.naturalWidth)
        naturalHeight == I(E.img.naturalHeight)
        bounds == getImageBounds(E)
    IN  IF bounds.width = Zero \/ bounds.height = Zero
        THEN [x |-> NaN, y |-> NaN, width |-> NaN, height |-> NaN]
        ELSE LET scaleX == RDiv(naturalWidth, bounds.width)
                 scaleY == RDiv(naturalHeight, bounds.height)
                 x == I(Floor(RMul(crop.x, scaleX)))
                 y == I(Floor(RMul(crop.y, scaleY)))
             IN  [x |-> x, y |-> y,
                  width  |-> RMin(I(Floor(RMul(crop.width, scaleX))),
                                  RSub(naturalWidth, x)),
                  height |-> RMin(I(Floor(RMul(crop.height, scaleY))),
                                  RSub(naturalHeight, y))]

\* lines 619-688: the request is sent; its response is the task "cropResp"
performCrop(w, orientation) ==
    IF w.A.currentImage = "none" THEN w
    ELSE LET crop == IF orientation = "portrait" THEN w.A.portraitCrop
                     ELSE w.A.landscapeCrop
         IN  Schedule(w, Task("cropResp", w.A.currentImage, orientation,
                              ScaledCrop(crop, w.E)))

-----------------------------------------------------------------------------
(* ui-controller.js: updateStage *)

\* lines 199-226, reached from stages 1 and 2 and from a Review with a crop
StageTail(w, currentStage) ==
    IF ~w.A.syncing /\ w.A.currentImage # "none"
    THEN IF currentStage = 3
         THEN [w EXCEPT !.E.previewShown = TRUE, !.E.overlayShown = FALSE,
                        !.E.rect.shown = FALSE]
         ELSE [w EXCEPT !.E.previewShown = FALSE]
    ELSE w

\* the animation-frame callbacks registered by one call run in one frame, in
\* order: lines 117-121 / 134-138 (init), then lines 211-216 (tools)
StageFrame(w, currentStage) ==
    Schedule(w, Task("rafStage",
                     IF ~w.A.syncing /\ w.A.currentImage # "none" THEN "tools" ELSE "-",
                     StageOrientation(currentStage), NoData))

\* the update scheduled by the redirect of lines 188-195
RedirectTask == Task("rafUpdateStage", "redirect", "-", NoData)

\* updateStage whose redirect leaves currentStage at 3
updateStage_NoPortrait(w) ==
    LET currentStage == w.A.currentStage
        hasPortrait == RPos(w.A.portraitCrop.width)
        hasLandscape == RPos(w.A.landscapeCrop.width)
    IN  IF ~w.A.initialized \/ w.A.syncing THEN w
        ELSE IF currentStage = 1
        THEN StageTail(StageFrame([w EXCEPT !.E.btnBackDisabled = TRUE], 1), 1)
        ELSE IF currentStage = 2
        THEN StageTail(StageFrame([w EXCEPT !.E.btnBackDisabled = FALSE], 2), 2)
        ELSE LET w3 == [w EXCEPT !.E.btnBackDisabled = FALSE,
                                 !.E.rect.shown = FALSE,
                                 !.E.overlayShown = FALSE,
                                 !.E.previewShown = TRUE,
                                 !.E.btnCrop = FALSE,
                                 !.E.btnSave = TRUE,
                                 !.E.btnSkip = FALSE]
             IN  IF ~hasPortrait /\ ~hasLandscape
                 THEN Schedule(w3, RedirectTask)
                 ELSE StageTail(w3, 3)

updateStage(w) ==
    LET currentStage == w.A.currentStage
        hasPortrait == RPos(w.A.portraitCrop.width)
        hasLandscape == RPos(w.A.landscapeCrop.width)
    IN  IF ~w.A.initialized \/ w.A.syncing THEN w
        ELSE IF currentStage = 1
        THEN StageTail(StageFrame([w EXCEPT !.E.btnBackDisabled = TRUE], 1), 1)
        ELSE IF currentStage = 2
        THEN StageTail(StageFrame([w EXCEPT !.E.btnBackDisabled = FALSE], 2), 2)
        ELSE LET w3 == [w EXCEPT !.E.btnBackDisabled = FALSE,
                                 !.E.rect.shown = FALSE,
                                 !.E.overlayShown = FALSE,
                                 !.E.previewShown = TRUE,
                                 !.E.btnCrop = FALSE,
                                 !.E.btnSave = TRUE,
                                 !.E.btnSkip = FALSE]
             IN  IF ~hasPortrait /\ ~hasLandscape
                 THEN Schedule([w3 EXCEPT !.A.currentStage = 1], RedirectTask)
                 ELSE StageTail(w3, 3)

\* the callbacks of lines 117-121 / 134-138 and 211-216
rafStage(w, t) ==
    LET w1 == IF ~w.A.syncing THEN initCropRectangle(w, t.ori) ELSE w
    IN  IF t.img = "tools" /\ ~w1.A.syncing
        THEN [w1 EXCEPT !.E.overlayShown = TRUE, !.E.rect.shown = TRUE]
        ELSE w1

-----------------------------------------------------------------------------
(* image-loader.js: selectImage, loadSavedCropData, loadImageAndInitCrop *)

Images == {"A", "B"}

\* a library with a third image, whose fitted size is not a whole number of
\* pixels
LargeLibrary == Images \cup {"C"}

\* the natural size of each image of the library (its decoded asset)
Natural(id) == IF id = "A" THEN [width |-> 300, height |-> 600]
               ELSE IF id = "B" THEN [width |-> 200, height |-> 100]
               ELSE [width |-> 1504, height |-> 3000]

\* selectImage without the test of isSelectingImage
selectImage_Unguarded(w, identifier) ==
    IF w.A.syncing THEN w
    ELSE LET found == IF identifier \in DOMAIN w.A.imageList THEN identifier ELSE "none"
             w1 == [w EXCEPT !.sel = TRUE,
                             !.A.currentStage = 1,
                             !.A.portraitCrop = ZeroCrop,
                             !.A.landscapeCrop = ZeroCrop,
                             !.A.currentImage = found]
         IN  IF found = "none" THEN [w1 EXCEPT !.sel = FALSE]
             ELSE Schedule(w1, Task("cropData", found, "portrait", NoData))

\* lines 249-305
selectImage(w, identifier) ==
    IF w.A.syncing \/ w.sel THEN w
    ELSE LET found == IF identifier \in DOMAIN w.A.imageList THEN identifier ELSE "none"
             w1 == [w EXCEPT !.sel = TRUE,
                             !.A.currentStage = 1,
                             !.A.portraitCrop = ZeroCrop,
                             !.A.landscapeCrop = ZeroCrop,
                             !.A.currentImage = found]
         IN  IF found = "none" THEN [w1 EXCEPT !.sel = FALSE]
             ELSE Schedule(w1, Task("cropData", found, "portrait", NoData))

\* lines 342-425
loadImageAndInitCrop(w, identifier) ==
    [w EXCEPT !.E.img = [src |-> identifier, complete |-> FALSE,
                         naturalWidth |-> 0, naturalHeight |-> 0,
                         width |-> Zero, height |-> Zero, shown |-> FALSE,
                         onload |-> "load", onerror |-> "load"]]

\* lines 311-317 / 320-326: one response of GET /crop-data; `found` is a
\* stored native-space crop, or ZeroCrop when the backend has none
cropDataResponse(w, t, found) ==
    LET stored == RPos(found.width)
    IN  IF t.ori = "portrait"
        THEN Schedule([w EXCEPT !.A.portraitCrop = IF stored THEN found ELSE @],
                      Task("cropData", t.img, "landscape", NoData))
        ELSE loadImageAndInitCrop(
                 [w EXCEPT !.A.landscapeCrop = IF stored THEN found ELSE @],
                 IF w.A.currentImage # "none" THEN w.A.currentImage ELSE t.img)

\* lines 332-338 and 293-300: a failed fetch ends loadSavedCropData
cropDataFailure(w, t) ==
    loadImageAndInitCrop(w, IF w.A.currentImage # "none" THEN w.A.currentImage
                            ELSE t.img)

\* lines 363-385: the size the image is given when it has loaded
LoadSize(container, naturalWidth, naturalHeight) ==
    LET containerWidth == I(container.w - FitMargin)
        containerHeight == I(container.h - FitMargin)
        imageRatio == Q(naturalWidth, naturalHeight)
        containerRatio == RDiv(containerWidth, containerHeight)
    IN  IF RLt(containerRatio, imageRatio)
        THEN [width |-> containerWidth, height |-> RDiv(containerWidth, imageRatio)]
        ELSE [width |-> RMul(containerHeight, imageRatio), height |-> containerHeight]

\* lines 351-405
onloadSelect(w) ==
    LET sz == LoadSize(w.E.container, w.E.img.naturalWidth, w.E.img.naturalHeight)
        E1 == [w.E EXCEPT !.editorShown = TRUE,
                          !.img.shown = TRUE,
                          !.img.width = sz.width,
                          !.img.height = sz.height,
                          !.previewShown = FALSE,
                          !.btnCrop = TRUE,
                          !.btnSave = FALSE,
                          !.btnSkip = TRUE]
        b == imgRect(E1)
        E2 == [E1 EXCEPT !.dataset = [imgLeft |-> b.left, imgTop |-> b.top,
                                      imgWidth |-> b.width, imgHeight |-> b.height]]
    IN  [updateStage([w EXCEPT !.E = E2]) EXCEPT !.sel = FALSE]

\* lines 407-412
onerrorSelect(w) == [w EXCEPT !.E.editorShown = FALSE, !.sel = FALSE]

\* the load event of the image element: the handler installed last runs
\* (crop-engine.js:68-71 replaces the one of loadImageAndInitCrop)
imageLoaded(w) ==
    LET n == Natural(w.E.img.src)
        w1 == [w EXCEPT !.E.img.complete = TRUE,
                        !.E.img.naturalWidth = n.width,
                        !.E.img.naturalHeight = n.height]
    IN  IF w.E.img.onload = "load" THEN onloadSelect(w1)
        ELSE IF w.E.img.onload = "fit"
        THEN Schedule(w1, Task("fitRetry", "-", "-", NoData))
        ELSE w1

imageFailed(w) ==
    LET w1 == [w EXCEPT !.E.img.complete = TRUE]
    IN  IF w.E.img.onerror = "load" THEN onerrorSelect(w1) ELSE w1

-----------------------------------------------------------------------------
(* main.js: the button handlers of initializeApp *)

\* lines 501-512
btnCrop(w) ==
    IF w.A.syncing THEN w
    ELSE updateStage(
           IF w.A.currentStage = 1
           THEN [performCrop(w, "portrait") EXCEPT !.A.currentStage = 2]
           ELSE IF w.A.currentStage = 2
           THEN [performCrop(w, "landscape") EXCEPT !.A.currentStage = 3]
           ELSE w)

\* btnSkip that skips both orientations at once from Portrait
btnSkip_ToReview(w) ==
    IF w.A.syncing THEN w
    ELSE updateStage(
           IF w.A.currentStage = 1
           THEN [w EXCEPT !.A.portraitCrop = ZeroCrop, !.A.currentStage = 3]
           ELSE IF w.A.currentStage = 2
           THEN [w EXCEPT !.A.landscapeCrop = ZeroCrop, !.A.currentStage = 3]
           ELSE w)

\* btnSkip that leaves the stored crop as it is
btnSkip_KeepsCrop(w) ==
    IF w.A.syncing THEN w
    ELSE updateStage(
           IF w.A.currentStage = 1
           THEN [w EXCEPT !.A.currentStage = 2]
           ELSE IF w.A.currentStage = 2
           THEN [w EXCEPT !.A.currentStage = 3]
           ELSE w)

\* lines 514-525
btnSkip(w) ==
    IF w.A.syncing THEN w
    ELSE updateStage(
           IF w.A.currentStage = 1
           THEN [w EXCEPT !.A.portraitCrop = ZeroCrop, !.A.currentStage = 2]
           ELSE IF w.A.currentStage = 2
           THEN [w EXCEPT !.A.landscapeCrop = ZeroCrop, !.A.currentStage = 3]
           ELSE w)

\* lines 527-537
btnBack(w) ==
    IF w.A.syncing THEN w
    ELSE updateStage(
           IF w.A.currentStage = 2
           THEN [w EXCEPT !.A.currentStage = 1]
           ELSE IF w.A.currentStage = 3
           THEN [w EXCEPT !.A.currentStage = 2, !.E.btnSkip = TRUE]
           ELSE w)

-----------------------------------------------------------------------------
(* api-service.js: resetImage, syncWithImmich, the crop response *)

\* meural-service.js:510-529; the response is the task "resetResp"
resetImage(w) ==
    IF w.A.currentImage = "none" \/ w.sip \/ w.A.syncing THEN w
    ELSE Schedule(w, Task("resetResp", w.A.currentImage, "-", NoData))

\* the continuation of resetImage without the assignment of currentStage
resetResponse_KeepsStage(w, t, success) ==
    IF success
    THEN Schedule([w EXCEPT !.A.portraitCrop = ZeroCrop,
                            !.A.landscapeCrop = ZeroCrop,
                            !.A.imageList[t.img] = "unprocessed"],
                  Task("rafUpdateStage", "-", "-", NoData))
    ELSE w

\* meural-service.js:531-579
resetResponse(w, t, success) ==
    IF success
    THEN Schedule([w EXCEPT !.A.portraitCrop = ZeroCrop,
                            !.A.landscapeCrop = ZeroCrop,
                            !.A.currentStage = 1,
                            !.A.imageList[t.img] = "unprocessed"],
                  Task("rafUpdateStage", "-", "-", NoData))
    ELSE [w EXCEPT !.E.alert = "reset"]

\* ui-controller.js:190-194 and meural-service.js:572-576
rafUpdateStage(w) == IF ~w.A.syncing THEN updateStage(w) ELSE w

\* the request of the n-th click on the Sync button
SyncRequest(n) == Task("syncResp", "-", "-", [NoData EXCEPT !.x = I(n)])

\* a sync that sends its request whatever the flags say
syncWithImmich_Unguarded(w) ==
    Schedule([w EXCEPT !.sip = TRUE, !.A.syncing = TRUE], SyncRequest(w.hist.syncs))

\* meural-service.js:285-322; the response is the task "syncResp"
syncWithImmich(w) ==
    IF ~w.A.initialized \/ w.A.syncing \/ w.sip THEN w
    ELSE Schedule([w EXCEPT !.sip = TRUE, !.A.syncing = TRUE],
                  SyncRequest(w.hist.syncs))

\* the ways a sync request ends: the server reports success, the server
\* reports success = false, the fetch or the decoding of its answer throws
SyncOutcomes == {"success", "refused", "thrown"}

\* meural-service.js:324-378: the library is unchanged by the sync; an error
\* is alerted; the finally block clears both flags
syncResponse(w, outcome) ==
    LET w1 == IF outcome = "thrown" THEN [w EXCEPT !.E.alert = "sync"] ELSE w
    IN  [w1 EXCEPT !.sip = FALSE, !.A.syncing = FALSE]

\* the continuation of performCrop that marks the image on a failure too
cropResponse_MarksFailed(w, t, success) ==
    IF w.A.currentImage # "none"
    THEN LET other == IF t.ori = "portrait" THEN "landscape" ELSE "portrait"
             cur == w.A.imageList[w.A.currentImage]
         IN  [w EXCEPT !.A.imageList[w.A.currentImage] =
                           IF cur = other THEN "both" ELSE t.ori]
    ELSE w

\* crop-engine.js:689-777: on success the status of the current image is
\* updated; on a failure (success = false, or the rejected fetch) the
\* operator is alerted
cropResponse(w, t, success) ==
    IF ~success THEN [w EXCEPT !.E.alert = "crop"]
    ELSE IF w.A.currentImage # "none"
    THEN LET other == IF t.ori = "portrait" THEN "landscape" ELSE "portrait"
             cur == w.A.imageList[w.A.currentImage]
         IN  [w EXCEPT !.A.imageList[w.A.currentImage] =
                           IF cur = other THEN "both" ELSE t.ori]
    ELSE w

-----------------------------------------------------------------------------
(* meural-service.js: the preview on a Meural Canvas *)

\* lines 176-210: the rectangle read from the DOM, scaled by natural size /
\* offsetWidth (the layout size rounded to an integer)
TempCrop(E) ==
    LET b == imgRect(E)
        offsetWidth == Floor(RAdd(E.img.width, Q(1, 2)))
        offsetHeight == Floor(RAdd(E.img.height, Q(1, 2)))
        x == RSub(I(ParseInt(E.rect.left)), b.left)
        y == RSub(I(ParseInt(E.rect.top)), b.top)
    IN  IF ~E.img.shown \/ offsetWidth = 0 \/ offsetHeight = 0
        THEN [x |-> NaN, y |-> NaN, width |-> NaN, height |-> NaN]
        ELSE LET scaleX == Q(E.img.naturalWidth, offsetWidth)
                 scaleY == Q(E.img.naturalHeight, offsetHeight)
             IN  [x      |-> I(Floor(RMul(x, scaleX))),
                  y      |-> I(Floor(RMul(y, scaleY))),
                  width  |-> I(Floor(RMul(I(ParseInt(E.rect.width)), scaleX))),
                  height |-> I(Floor(RMul(I(ParseInt(E.rect.height)), scaleY)))]

\* lines 142-247: the device dialog is the task "meuralDialog"; it carries
\* the crop of the payload, which is sent at the editing stages only
\* (lines 170, 55-57)
previewCurrentOnMeural(w) ==
    LET currentStage == w.A.currentStage
        usePortrait == currentStage = 1
                       \/ (currentStage = 3 /\ RPos(w.A.portraitCrop.width))
        useLandscape == currentStage = 2
                        \/ (currentStage = 3 /\ RPos(w.A.landscapeCrop.width))
    IN  IF w.A.currentImage = "none" \/ w.A.syncing \/ (~usePortrait /\ ~useLandscape)
        THEN [w EXCEPT !.E.alert = "preview"]
        ELSE Schedule(w, Task("meuralDialog", w.A.currentImage,
                              IF usePortrait THEN "portrait" ELSE "landscape",
                              IF currentStage < 3 THEN TempCrop(w.E) ELSE NoData))

\* lines 37-58: meuralPreviewInProgress is set while a preview request is
\* in flight
previewOnMeural(w, t) ==
    IF \E u \in w.T : u.kind = "previewResp" THEN [w EXCEPT !.E.alert = "preview"]
    ELSE Schedule(w, Task("previewResp", t.img, t.ori, t.data))

\* lines 258-266
previewResponse(w, success) ==
    IF success THEN w ELSE [w EXCEPT !.E.alert = "preview"]

-----------------------------------------------------------------------------
(* ui-controller.js:347-361 and main.js:583-590: the resize listeners *)

onResize(w, container) ==
    LET w1 == [w EXCEPT !.E.container = container]
        w2 == IF w1.A.currentImage # "none" /\ ~w1.A.syncing
              THEN Schedule(w1, Task("resizeTimer", "-", "-", NoData))
              ELSE w1
    IN  Schedule(w2, Task("debouncedFit", "-", "-", NoData))

\* ui-controller.js:351-359
resizeTimer(w) ==
    LET w1 == forceImageFit(w)
    IN  IF w1.A.currentStage \in {1, 2}
        THEN initCropRectangle(w1, StageOrientation(w1.A.currentStage))
        ELSE w1

\* main.js:583-587
debouncedFit(w) ==
    IF w.E.img.complete /\ ~w.A.syncing THEN forceImageFit(w) ELSE w

\* crop-engine.js:269-273
setupCropHandlers(w) ==
    [w EXCEPT !.E = updateOverlayPosition(w.E), !.H = Append(@, NewClosure)]

-----------------------------------------------------------------------------
(* The state after initializeApp (main.js:443-626, crop-engine.js:980-989) *)

Containers == {[w |-> 240, h |-> 340], [w |-> 340, h |-> 240]}

\* the crops the backend may hold for an image (native space, inside the
\* image as performCrop sends them), ZeroCrop = none
StoredCrops(id, orientation) ==
    {ZeroCrop} \cup
    IF id = "A" /\ orientation = "portrait"
    THEN {[x |-> I(30), y |-> I(60), width |-> I(270), height |-> I(480)]}
    ELSE IF id = "B" /\ orientation = "landscape"
    THEN {[x |-> I(20), y |-> I(5), width |-> I(160), height |-> I(90)]}
    ELSE IF id = "C" /\ orientation = "portrait"
    THEN {[x |-> I(504), y |-> I(0), width |-> I(1000), height |-> I(1777)]}
    ELSE {}

StartWorld(container, budget, library) ==
    [A |-> [initialized |-> TRUE, syncing |-> FALSE,
            imageList |-> [id \in library |-> "unprocessed"],
            currentImage |-> "none", currentStage |-> 1,
            portraitCrop |-> ZeroCrop, landscapeCrop |-> ZeroCrop],
     E |-> [container |-> container,
            img |-> [src |-> "none", complete |-> TRUE,
                     naturalWidth |-> 0, naturalHeight |-> 0,
                     width |-> Zero, height |-> Zero, shown |-> FALSE,
                     onload |-> "none", onerror |-> "none"],
            dataset |-> [imgLeft |-> Zero, imgTop |-> Zero,
                         imgWidth |-> Zero, imgHeight |-> Zero],
            rect |-> [left |-> Zero, top |-> Zero, width |-> Zero,
                      height |-> Zero, shown |-> FALSE],
            overlayShown |-> FALSE, previewShown |-> FALSE,
            btnCrop |-> TRUE, btnSave |-> FALSE, btnSkip |-> TRUE,
            btnBackDisabled |-> TRUE, editorShown |-> FALSE,
            alert |-> "none"],
     sel |-> FALSE, sip |-> FALSE, H |-> <<>>, T |-> {},
     hist |-> [max |-> budget,
               events |-> 0, selects |-> 0, clicks |-> 0, resizes |-> 0, gestures |-> 0,
               syncs |-> 0, sample |-> "none", startInside |-> FALSE,
               downs |-> 0, lateDown |-> "none",
               pending |-> FALSE, lateSelect |-> FALSE,
               phase |-> "none", advRect |-> ZeroCrop,
               prev |-> "none", redirect |-> "none",
               fits |-> 0, inits |-> 0,
               downRect |-> [left |-> Zero, top |-> Zero, width |-> Zero,
                             height |-> Zero, shown |-> FALSE]]]

Start(w) ==
    /\ APP_STATE = w.A
    /\ ELEMENTS = w.E
    /\ isSelectingImage = w.sel
    /\ syncInProgress = w.sip
    /\ handlers = w.H
    /\ tasks = w.T
    /\ hist = w.hist


-----------------------------------------------------------------------------
(* Bounds of the exploration *)

MaxEvents == 3
MaxSelects == 2
MaxClicks == 3
MaxResizes == 1
MaxSyncs == 1
MaxGestures == 2
MaxHandlerSets == 2

Count(w, field) ==
    [w EXCEPT !.hist[field] = @ + 1,
              !.hist.events = IF field = "gestures" THEN @ ELSE @ + 1,
              !.hist.redirect = "none"]
Forget(w) == [w EXCEPT !.hist.phase = "none"]
Without(t) == [World EXCEPT !.T = @ \ {t}]

-----------------------------------------------------------------------------
(* Events of the session *)

\* a pointer held down on the rectangle cannot click elsewhere
Active(c) == c.isDragging \/ c.isResizing
GestureActive == \E i \in DOMAIN handlers : Active(handlers[i])
CanAct == hist.events < hist.max.events /\ ~GestureActive

\* image-loader.js:225-238: a click on an item of the image grid
ClickImage(id) ==
    /\ hist.selects < hist.max.selects /\ CanAct
    /\ LET accepted == ~APP_STATE.syncing /\ ~isSelectingImage
           w == [Count(World, "selects") EXCEPT
                    !.hist.lateSelect = @ \/ hist.pending,
                    !.hist.pending = @ \/ accepted,
                    !.hist.prev = IF accepted THEN ELEMENTS.img.src ELSE @]
       IN  Commit(IF APP_STATE.syncing THEN w ELSE selectImage(Forget(w), id))

CropDataArrives(t, found) ==
    /\ t \in tasks /\ t.kind = "cropData"
    /\ found \in StoredCrops(t.img, t.ori)
    /\ Commit(cropDataResponse(Without(t), t, found))

CropDataFails(t) ==
    /\ t \in tasks /\ t.kind = "cropData"
    /\ Commit(cropDataFailure(Without(t), t))

Loading == ELEMENTS.img.src # "none" /\ ~ELEMENTS.img.complete

ImageLoad == Loading /\ Commit([imageLoaded(World) EXCEPT !.hist.pending = FALSE])

ImageError == Loading /\ Commit([imageFailed(World) EXCEPT !.hist.pending = FALSE])

ClickCrop ==
    /\ hist.clicks < hist.max.clicks /\ CanAct
    /\ ELEMENTS.editorShown /\ ELEMENTS.btnCrop
    /\ Commit(btnCrop(
         [Count(World, "clicks") EXCEPT
            !.hist.phase = IF APP_STATE.currentStage = 1 /\ ~APP_STATE.syncing
                              /\ ELEMENTS.rect.shown
                           THEN "advanced" ELSE "none",
            !.hist.advRect = [x |-> ELEMENTS.rect.left, y |-> ELEMENTS.rect.top,
                              width |-> ELEMENTS.rect.width,
                              height |-> ELEMENTS.rect.height]]))

ClickSkip ==
    /\ hist.clicks < hist.max.clicks /\ CanAct
    /\ ELEMENTS.editorShown /\ ELEMENTS.btnSkip
    /\ Commit(btnSkip([Count(World, "clicks") EXCEPT
                          !.hist.phase = IF APP_STATE.syncing THEN "none"
                                         ELSE "skipped"]))

ClickBack ==
    /\ hist.clicks < hist.max.clicks /\ CanAct
    /\ ELEMENTS.editorShown /\ ~ELEMENTS.btnBackDisabled
    /\ Commit(btnBack(
         [Count(World, "clicks") EXCEPT
            !.hist.phase = IF @ = "landscape" /\ ~APP_STATE.syncing
                           THEN "back" ELSE "none"]))

ClickReset ==
    /\ hist.clicks < hist.max.clicks /\ CanAct
    /\ ELEMENTS.editorShown
    /\ Commit(IF APP_STATE.syncing THEN Count(World, "clicks")
              ELSE resetImage(Forget(Count(World, "clicks"))))

ResetArrives(t, success) ==
    /\ t \in tasks /\ t.kind = "resetResp"
    /\ Commit(resetResponse([Without(t) EXCEPT
                                !.hist.phase = IF success THEN "reset" ELSE "none"],
                             t, success))

CropArrives(t, success) ==
    /\ t \in tasks /\ t.kind = "cropResp"
    /\ Commit(cropResponse(Without(t), t, success))

\* main.js:552-563
ClickSync ==
    /\ hist.syncs < hist.max.syncs /\ CanAct
    /\ Commit(IF ~APP_STATE.syncing /\ APP_STATE.initialized
              THEN syncWithImmich(Count(World, "syncs"))
              ELSE Count(World, "syncs"))

SyncArrives(t, outcome) ==
    /\ t \in tasks /\ t.kind = "syncResp"
    /\ Commit(syncResponse(Without(t), outcome))

WindowResize(c) ==
    /\ hist.resizes < hist.max.resizes /\ CanAct
    /\ c \in Containers /\ c # ELEMENTS.container
    /\ Commit(onResize([Forget(Count(World, "resizes")) EXCEPT
                            !.hist.fits = 0, !.hist.inits = 0], c))

\* image-loader.js:576-580
ClickPreview ==
    /\ hist.clicks < hist.max.clicks /\ CanAct
    /\ ELEMENTS.editorShown
    /\ Commit(IF ~APP_STATE.syncing /\ APP_STATE.initialized
              THEN previewCurrentOnMeural(Forget(Count(World, "clicks")))
              ELSE Count(World, "clicks"))

\* meural-service.js:121-127: a device of the dialog is clicked
PickDevice(t) ==
    /\ t \in tasks /\ t.kind = "meuralDialog"
    /\ Commit(previewOnMeural(Without(t), t))

PreviewArrives(t, success) ==
    /\ t \in tasks /\ t.kind = "previewResp"
    /\ Commit(previewResponse(Without(t), success))

-----------------------------------------------------------------------------
(* Deferred callbacks *)

RunRafStage(t) ==
    /\ t \in tasks /\ t.kind = "rafStage"
    /\ Commit([rafStage(Without(t), t) EXCEPT
         !.hist.phase =
            IF APP_STATE.syncing \/ ~ELEMENTS.img.complete THEN "none"
            ELSE IF @ = "advanced" /\ t.ori = "landscape" THEN "landscape"
            ELSE IF @ = "back" /\ t.ori = "portrait" THEN "reinit"
            ELSE "none"])

\* hist.redirect: whether the update scheduled by a redirect has redirected
\* again ("again") or not ("settled")
RunRafUpdateStage(t) ==
    /\ t \in tasks /\ t.kind = "rafUpdateStage"
    /\ LET w == rafUpdateStage(Without(t))
       IN  Commit([w EXCEPT !.hist.redirect =
                      IF t # RedirectTask THEN @
                      ELSE IF RedirectTask \in w.T THEN "again" ELSE "settled"])

\* crop-engine.js:166
RunRetryInit(t) ==
    /\ t \in tasks /\ t.kind = "retryInit"
    /\ Commit(initCropRectangle(Forget(Without(t)), t.ori))

RunSetup(t) ==
    /\ t \in tasks /\ t.kind = "setup"
    /\ Len(handlers) < MaxHandlerSets
    /\ Commit(setupCropHandlers(Without(t)))

\* the image is loaded: forceImageFit and initCropRectangle pass their guard
Loaded == ELEMENTS.img.complete /\ ELEMENTS.img.naturalWidth > 0

\* hist.fits, hist.inits: the fits of the image and the computations of the
\* rectangle since the last resize event
RunResizeTimer(t) ==
    /\ t \in tasks /\ t.kind = "resizeTimer"
    /\ Commit([resizeTimer(Forget(Without(t))) EXCEPT
                  !.hist.fits = IF Loaded THEN @ + 1 ELSE @,
                  !.hist.inits = IF Loaded /\ APP_STATE.currentStage \in {1, 2}
                                 THEN @ + 1 ELSE @])

RunDebouncedFit(t) ==
    /\ t \in tasks /\ t.kind = "debouncedFit"
    /\ Commit([debouncedFit(Forget(Without(t))) EXCEPT
                  !.hist.fits = IF Loaded /\ ~APP_STATE.syncing THEN @ + 1 ELSE @])

RunFitApply(t) ==
    /\ t \in tasks /\ t.kind = "fitApply"
    /\ Commit([fitApply(Forget(Without(t))) EXCEPT
                  !.hist.inits = IF Loaded /\ ELEMENTS.rect.shown
                                    /\ APP_STATE.currentStage \in {1, 2}
                                 THEN @ + 1 ELSE @])

\* crop-engine.js:70
RunFitRetry(t) ==
    /\ t \in tasks /\ t.kind = "fitRetry"
    /\ Commit([forceImageFit(Without(t)) EXCEPT
                  !.hist.fits = IF Loaded THEN @ + 1 ELSE @])

-----------------------------------------------------------------------------
(* Pointer events on the crop rectangle (crop-engine.js:374-579) *)

PointerXs == {-150, 60}
PointerYs == {0, 90}
DownXs == {0}
DownYs == {0}

InsideBounds(rect, b) ==
    /\ RLe(b.left, rect.left)
    /\ RLe(b.top, rect.top)
    /\ RLe(RAdd(rect.left, rect.width), RAdd(b.left, b.width))
    /\ RLe(RAdd(rect.top, rect.height), RAdd(b.top, b.height))

\* the pointer is put on the rectangle of a settled editor
CanPoint ==
    /\ ELEMENTS.editorShown /\ ELEMENTS.rect.shown /\ handlers # <<>>
    /\ tasks = {} /\ ~Loading

\* the history of a gesture: how many pointer-downs it has received, whether
\* it started inside the bounds, which branch its last sample took, the
\* rectangle on screen at its first pointer-down
Down(w) ==
    [Forget(Count(w, "gestures")) EXCEPT
        !.hist.sample = "none",
        !.hist.downs = IF \E i \in DOMAIN w.H : Active(w.H[i]) THEN @ + 1 ELSE 1,
        !.hist.downRect = IF \E i \in DOMAIN w.H : Active(w.H[i]) THEN @ ELSE w.E.rect,
        !.hist.startInside = InsideBounds(w.E.rect, getImageBounds(w.E))]

\* a pointer-down received during a gesture has changed what a listener
\* set had recorded for the gesture
LateDown(old, new) ==
    IF \E i \in DOMAIN old : Active(old[i]) /\ new[i] # old[i] THEN "changed"
    ELSE IF \E i \in DOMAIN old : Active(old[i]) THEN "ignored"
    ELSE "none"

MouseDownBody(x, y) ==
    /\ CanPoint /\ hist.gestures < hist.max.gestures
    /\ LET H == [i \in DOMAIN handlers |-> BodyDown(handlers[i], ELEMENTS, x, y)]
       IN  Commit([Down(World) EXCEPT !.H = H,
                                      !.hist.lateDown = LateDown(handlers, H)])

TouchStartBody(x, y) ==
    /\ CanPoint /\ hist.gestures < hist.max.gestures
    /\ LET H == [i \in DOMAIN handlers |-> BodyDown(handlers[i], ELEMENTS, x, y)]
       IN  Commit([Down(World) EXCEPT !.H = H,
                                      !.hist.lateDown = LateDown(handlers, H)])

MouseDownHandle(h, x, y) ==
    /\ CanPoint /\ hist.gestures < hist.max.gestures
    /\ LET H == [i \in DOMAIN handlers |-> HandleDown(handlers[i], ELEMENTS, h, x, y)]
       IN  Commit([Down(World) EXCEPT !.H = H,
                                      !.hist.lateDown = LateDown(handlers, H)])

TouchStartHandle(h, x, y) ==
    /\ CanPoint /\ hist.gestures < hist.max.gestures
    /\ LET H == [i \in DOMAIN handlers |-> HandleDown(handlers[i], ELEMENTS, h, x, y)]
       IN  Commit([Down(World) EXCEPT !.H = H,
                                      !.hist.lateDown = LateDown(handlers, H)])

\* which branch of handleMoveResize the listeners take
SampleKind ==
    IF \E i \in DOMAIN handlers : handlers[i].isDragging THEN "move"
    ELSE IF \E i \in DOMAIN handlers :
              handlers[i].isResizing /\ handlers[i].currentHandle # "none"
    THEN "resize" ELSE "none"

\* a sample that stores the crop as a release does
Sample_Stores(x, y) ==
    updateCropValues(
        [World EXCEPT !.E = MoveAll(handlers, 1, APP_STATE, ELEMENTS, x, y),
                      !.hist.sample = SampleKind])

Sample(x, y) ==
    [World EXCEPT !.E = MoveAll(handlers, 1, APP_STATE, ELEMENTS, x, y),
                  !.hist.sample = SampleKind]

\* lines 428-430: the listener calls handleMoveResize for every mousemove
MouseMove(x, y) == Commit(Sample(x, y))

\* lines 433-438: the listener tests isDragging || isResizing
TouchMove(x, y) == GestureActive /\ Commit(Sample(x, y))

Up(withCheck) ==
    [ReleaseAll(handlers, 1, World, withCheck) EXCEPT
        !.H = [i \in DOMAIN handlers |-> Released(handlers[i])],
        !.hist.sample = "none", !.hist.downs = 0, !.hist.lateDown = "none"]

MouseUp == GestureActive /\ Commit(Up(TRUE))

TouchEnd == GestureActive /\ Commit(Up(FALSE))

Pointer ==
    \/ \E x \in DownXs, y \in DownYs :
         \/ MouseDownBody(x, y)
         \/ TouchStartBody(x, y)
         \/ \E h \in Handles : MouseDownHandle(h, x, y) \/ TouchStartHandle(h, x, y)
    \/ \E x \in PointerXs, y \in PointerYs : MouseMove(x, y) \/ TouchMove(x, y)
    \/ MouseUp
    \/ TouchEnd


-----------------------------------------------------------------------------
(* Specifications *)

\* what one explored session may do
SessionBudget ==
    [events |-> MaxEvents, selects |-> MaxSelects, clicks |-> MaxClicks, resizes |-> MaxResizes,
     syncs |-> MaxSyncs, gestures |-> 0]
GestureBudget ==
    [events |-> 2, selects |-> 1, clicks |-> 1, resizes |-> 0, syncs |-> 0,
     gestures |-> MaxGestures]

Init == \E c \in Containers : Start(StartWorld(c, SessionBudget, Images))

InitGesture == \E c \in Containers : Start(StartWorld(c, GestureBudget, Images))

Next ==
    \/ \E id \in Images : ClickImage(id)
    \/ ClickCrop
    \/ ClickSkip
    \/ ClickBack
    \/ ClickReset
    \/ ClickSync
    \/ \E c \in Containers : WindowResize(c)
    \/ \E t \in tasks : \E found \in StoredCrops(t.img, t.ori) : CropDataArrives(t, found)
    \/ \E t \in tasks : CropDataFails(t)
    \/ \E t \in tasks : \E success \in BOOLEAN : ResetArrives(t, success)
    \/ \E t \in tasks : \E success \in BOOLEAN : CropArrives(t, success)
    \/ \E t \in tasks : \E outcome \in SyncOutcomes : SyncArrives(t, outcome)
    \/ ImageLoad
    \/ ImageError
    \/ \E t \in tasks : RunRafStage(t)
    \/ \E t \in tasks : RunRafUpdateStage(t)
    \/ \E t \in tasks : RunRetryInit(t)
    \/ \E t \in tasks : RunSetup(t)
    \/ \E t \in tasks : RunResizeTimer(t)
    \/ \E t \in tasks : RunDebouncedFit(t)
    \/ \E t \in tasks : RunFitApply(t)
    \/ \E t \in tasks : RunFitRetry(t)

Spec == Init /\ [][Next]_vars

\* the way to an editor showing an image, then gestures on its rectangle
NextGesture ==
    \/ \E id \in Images : ClickImage(id)
    \/ \E t \in tasks : \E found \in StoredCrops(t.img, t.ori) : CropDataArrives(t, found)
    \/ \E t \in tasks : CropArrives(t, TRUE)
    \/ \E t \in tasks : RunRafStage(t)
    \/ \E t \in tasks : RunSetup(t)
    \/ ImageLoad
    \/ ClickCrop
    \/ Pointer

SpecGesture == InitGesture /\ [][NextGesture]_vars

\* one image of the large library is selected, restored or initialised,
\* grabbed, cropped and previewed: the conversions between display and
\* native space
GeometryBudget ==
    [events |-> MaxEvents + 1, selects |-> 1, clicks |-> MaxClicks, resizes |-> 0,
     syncs |-> 0, gestures |-> 1]

InitGeometry ==
    \E c \in Containers : Start(StartWorld(c, GeometryBudget, LargeLibrary))

NextGeometry ==
    \/ \E id \in LargeLibrary : ClickImage(id)
    \/ \E t \in tasks : \E found \in StoredCrops(t.img, t.ori) : CropDataArrives(t, found)
    \/ ImageLoad
    \/ \E t \in tasks : RunRafStage(t)
    \/ \E t \in tasks : RunSetup(t)
    \/ ClickCrop
    \/ ClickBack
    \/ \E t \in tasks : CropArrives(t, TRUE)
    \/ \E x \in DownXs, y \in DownYs : MouseDownBody(x, y)
    \/ MouseUp
    \/ ClickPreview
    \/ \E t \in tasks : PickDevice(t)
    \/ \E t \in tasks : \E success \in BOOLEAN : PreviewArrives(t, success)

SpecGeometry == InitGeometry /\ [][NextGeometry]_vars

-----------------------------------------------------------------------------
(* Properties of the gestures (crop-engine.js:355-580) *)

TargetRatio == getAspectRatio(StageOrientation(APP_STATE.currentStage))

\* the listener set registered last
Gesture == handlers[Len(handlers)]

\* a sample of a gesture begun by one pointer-down
MoveSample == hist.sample = "move" /\ hist.downs = 1
ResizeSample == hist.sample = "resize" /\ hist.downs = 1

\* C2: after every sample of a move or resize gesture that started from a
\* rectangle inside the image's display bounds, the rectangle has a
\* non-negative width and height and lies inside the display bounds
C2_SampleInsideBounds ==
    (MoveSample \/ ResizeSample) /\ hist.startInside
        => /\ ~RNeg(ELEMENTS.rect.width) /\ ~RNeg(ELEMENTS.rect.height)
           /\ InsideBounds(ELEMENTS.rect, getImageBounds(ELEMENTS))

\* C3: after every resize sample the rectangle has a strictly positive width
\* and height, and width = height x the target ratio of the stage
C3_ResizeKeepsRatio ==
    ResizeSample
        => /\ RPos(ELEMENTS.rect.width) /\ RPos(ELEMENTS.rect.height)
           /\ ELEMENTS.rect.width = RMul(ELEMENTS.rect.height, TargetRatio)

\* the corner diagonally opposite the dragged handle, from what the
\* pointer-down recorded
AnchorX(c) ==
    IF c.currentHandle \in {"bottom-left", "top-left"}
    THEN I(c.startLeft + c.startWidth) ELSE I(c.startLeft)
AnchorY(c) ==
    IF c.currentHandle \in {"top-right", "top-left"}
    THEN I(c.startTop + c.startHeight) ELSE I(c.startTop)
CornerX(c, rect) ==
    IF c.currentHandle \in {"bottom-left", "top-left"}
    THEN RAdd(rect.left, rect.width) ELSE rect.left
CornerY(c, rect) ==
    IF c.currentHandle \in {"top-right", "top-left"}
    THEN RAdd(rect.top, rect.height) ELSE rect.top

\* C4: in every sample of a resize gesture the corner opposite the dragged
\* handle is where it was at the pointer-down
C4_AnchorFixed ==
    ResizeSample
        => /\ CornerX(Gesture, ELEMENTS.rect) = AnchorX(Gesture)
           /\ CornerY(Gesture, ELEMENTS.rect) = AnchorY(Gesture)

\* C5: after every resize sample the width is at least the 50-pixel floor
\* and the height is positive
C5_WidthFloor ==
    ResizeSample
        => /\ RLe(I(FloorWidth), ELEMENTS.rect.width)
           /\ RPos(ELEMENTS.rect.height)

\* C6: the move flag and the resize flag are never both set, and a
\* pointer-down received during a gesture changes nothing of what the
\* listeners recorded for it
C6_OneGesture ==
    /\ \A i \in DOMAIN handlers :
          ~(handlers[i].isDragging /\ handlers[i].isResizing)
    /\ hist.lateDown # "changed"

-----------------------------------------------------------------------------
(* Properties of the session *)

Near(a, b) == RLt(RSub(a, b), I(1)) /\ RLt(RSub(b, a), I(1))

\* C1: after Crop and Continue at the Portrait stage, then Back, the
\* re-initialised Portrait stage displays the rectangle that was displayed
\* at the advance, up to one pixel in position and size
C1_BackRestoresRect ==
    hist.phase = "reinit"
        => /\ Near(ELEMENTS.rect.left, hist.advRect.x)
           /\ Near(ELEMENTS.rect.top, hist.advRect.y)
           /\ Near(ELEMENTS.rect.width, hist.advRect.width)
           /\ Near(ELEMENTS.rect.height, hist.advRect.height)

Session == <<APP_STATE.currentImage, APP_STATE.currentStage,
             APP_STATE.portraitCrop, APP_STATE.landscapeCrop>>

\* a step that is a click on an image of the grid
Selecting == hist'.selects = hist.selects + 1

\* C7: a selectImage call made while a selection is pending leaves the
\* current image, the stage and both stored crops unchanged
C7_PendingSelectionRejects ==
    [][hist.pending /\ Selecting => Session' = Session]_vars

\* C7 (witness): an image was clicked while a selection was pending, and
\* that selection is still pending
C7_Witness == hist.lateSelect /\ hist.pending /\ isSelectingImage

\* the step runs a callback that calls forceImageFit or initCropRectangle
GeometryKinds ==
    {"rafStage", "retryInit", "resizeTimer", "debouncedFit", "fitApply", "fitRetry"}
Recomputing == \E t \in tasks \ tasks' : t.kind \in GeometryKinds

\* C8: while APP_STATE.syncing is true, no callback that was scheduled to
\* run forceImageFit or initCropRectangle rewrites the rectangle, the fitted
\* size of the image or a stored crop
C8_NoGeometryWhileSyncing ==
    [][APP_STATE.syncing /\ Recomputing =>
          /\ ELEMENTS'.rect = ELEMENTS.rect
          /\ ELEMENTS'.img = ELEMENTS.img
          /\ APP_STATE'.portraitCrop = APP_STATE.portraitCrop
          /\ APP_STATE'.landscapeCrop = APP_STATE.landscapeCrop]_vars

\* the step is the continuation of a request issued for another image than
\* the current one
Stale ==
    \E t \in tasks \ tasks' :
        /\ t.kind \in {"resetResp", "cropData"}
        /\ t.img # APP_STATE.currentImage

\* C9: the continuation of a reset or of a crop-data fetch issued for an
\* image that is no longer the current one changes neither the stage nor
\* the stored crops
C9_StaleContinuationNoOp ==
    [][Stale => Session' = Session]_vars

\* the load event of a newly selected image runs the handler of
\* loadImageAndInitCrop and the stage is initialised
LoadCompletes ==
    /\ Loading /\ ELEMENTS.img.onload = "load" /\ ~APP_STATE.syncing
    /\ ELEMENTS'.img.complete /\ ELEMENTS'.img.naturalWidth > 0

\* C10: when the load of a newly selected image completes and the stage is
\* initialised, the stage is Portrait
C10_LoadEntersPortrait ==
    [][LoadCompletes => APP_STATE'.currentStage = 1]_vars

\* the load event of the selected image runs the handler installed by
\* loadImageAndInitCrop: the selection is complete
SelectionCompletes ==
    /\ Loading /\ ELEMENTS.img.onload = "load"
    /\ ELEMENTS'.img.complete /\ ELEMENTS'.img.naturalWidth > 0

\* C11: when the selection of an image completes while another image was
\* displayed, each stored crop is zero or the crop fetched for the selected
\* image: nothing committed on the image that was displayed before remains
\* in the session
C11_NoForeignCrop ==
    [][SelectionCompletes /\ hist.prev \notin {"none", APP_STATE.currentImage} =>
          /\ APP_STATE'.portraitCrop \in
                 StoredCrops(APP_STATE'.currentImage, "portrait")
          /\ APP_STATE'.landscapeCrop \in
                 StoredCrops(APP_STATE'.currentImage, "landscape")]_vars

\* C12: a stage update that finds Review with both crops zero sets the stage
\* to Portrait and schedules one further update; that update does not
\* redirect again, and the stage stays Portrait until the next user action
C12_RedirectOnce ==
    /\ RedirectTask \in tasks => APP_STATE.currentStage = 1
    /\ hist.redirect # "again"
    /\ hist.redirect = "settled" =>
          APP_STATE.currentStage = 1 /\ RedirectTask \notin tasks

\* C12 (witness): the update scheduled by a redirect has run outside a sync
\* and the Portrait stage has been initialised after it
C12_Witness ==
    /\ hist.redirect = "settled" /\ hist.syncs = 0
    /\ APP_STATE.currentStage = 1
    /\ RPos(APP_STATE.portraitCrop.width)

\* the step that sets the stage to Portrait without a button of the workflow:
\* a selection, an acknowledged reset, or the redirect of an empty Review
ToPortrait ==
    \/ \E id \in Images : ClickImage(id)
    \/ \E t \in tasks : ResetArrives(t, TRUE)
    \/ RedirectTask \in tasks'

\* C13: currentStage is 1, 2 or 3 and changes only by +1 (Crop and Continue,
\* Skip, from Portrait or Landscape), by -1 (Back, from Landscape or Review)
\* or to 1 (selection, reset, redirect of an empty Review); Crop and Skip at
\* Review and Back at Portrait leave it unchanged
C13_StageEdges ==
    [][/\ APP_STATE'.currentStage \in {1, 2, 3}
       /\ (ClickCrop \/ ClickSkip) /\ APP_STATE.currentStage = 3
             => APP_STATE'.currentStage = 3
       /\ ClickBack /\ APP_STATE.currentStage = 1 => APP_STATE'.currentStage = 1
       /\ APP_STATE'.currentStage # APP_STATE.currentStage =>
             \/ /\ ClickCrop \/ ClickSkip
                /\ APP_STATE.currentStage \in {1, 2}
                /\ APP_STATE'.currentStage = APP_STATE.currentStage + 1
             \/ /\ ClickBack
                /\ APP_STATE.currentStage \in {2, 3}
                /\ APP_STATE'.currentStage = APP_STATE.currentStage - 1
             \/ APP_STATE'.currentStage = 1 /\ ToPortrait]_vars

\* C13 (witness): two advances have led from Portrait to Review
C13_Witness ==
    /\ APP_STATE.currentStage = 3 /\ hist.clicks = 2
    /\ RPos(APP_STATE.portraitCrop.width) /\ RPos(APP_STATE.landscapeCrop.width)

\* the displayed rectangle relative to the displayed image
DisplayedCrop ==
    [x |-> RSub(ELEMENTS.rect.left, ELEMENTS.dataset.imgLeft),
     y |-> RSub(ELEMENTS.rect.top, ELEMENTS.dataset.imgTop),
     width |-> ELEMENTS.rect.width, height |-> ELEMENTS.rect.height]

\* a click on Crop and Continue at Portrait or Landscape, on a loaded image
\* whose rectangle is displayed
Advancing ==
    /\ ClickCrop
    /\ APP_STATE.currentStage \in {1, 2} /\ ~APP_STATE.syncing
    /\ APP_STATE.currentImage # "none" /\ ~isSelectingImage /\ ~Loading
    /\ ELEMENTS.rect.shown

\* C14: an advance from Portrait (Landscape) leaves in portraitCrop
\* (landscapeCrop) the native-space conversion of the displayed rectangle and
\* moves the stage to Landscape (Review)
C14_AdvanceStoresNative ==
    [][Advancing =>
          /\ (IF APP_STATE.currentStage = 1 THEN APP_STATE'.portraitCrop
              ELSE APP_STATE'.landscapeCrop) = ScaledCrop(DisplayedCrop, ELEMENTS)
          /\ APP_STATE'.currentStage = APP_STATE.currentStage + 1]_vars

C16_ResetClears ==
    [][\A t \in tasks : ResetArrives(t, TRUE) =>
          /\ APP_STATE'.currentStage = 1
          /\ APP_STATE'.portraitCrop = ZeroCrop
          /\ APP_STATE'.landscapeCrop = ZeroCrop
          /\ APP_STATE'.imageList[t.img] = "unprocessed"]_vars

\* C16 (witness): a reset invoked after an advance has been acknowledged
C16_Witness ==
    /\ hist.phase = "reset" /\ hist.clicks = 2
    /\ \E t \in tasks : t.kind = "cropResp"
    /\ APP_STATE.currentStage = 1 /\ APP_STATE.portraitCrop = ZeroCrop

\* C17: when the crop request of an advance fails, the operator is alerted,
\* no request is sent again, and the current image, the stage, both stored
\* crops and the statuses of the images are what they were before the
\* response
C17_CropFailureKeepsState ==
    [][\A t \in tasks : CropArrives(t, FALSE) =>
          /\ Session' = Session
          /\ APP_STATE'.imageList = APP_STATE.imageList
          /\ ELEMENTS'.alert = "crop"
          /\ \A u \in tasks' : u.kind = "cropResp" => u \in tasks \ {t}]_vars

\* C17 (witness): the crop request of the advance from Portrait has failed
C17_Witness ==
    /\ ELEMENTS.alert = "crop" /\ APP_STATE.currentStage = 2
    /\ hist.clicks = 1 /\ RPos(APP_STATE.portraitCrop.width)
    /\ APP_STATE.imageList[APP_STATE.currentImage] = "unprocessed"

-----------------------------------------------------------------------------
(* Properties of the conversions between display and native space *)

\* the stored crop of the active stage
ActiveCrop ==
    IF APP_STATE.currentStage = 1 THEN APP_STATE.portraitCrop
    ELSE APP_STATE.landscapeCrop

\* the editor shows a loaded image with a rectangle inside its display
\* bounds, which is the stored crop of the active stage
DisplayRectStored ==
    /\ ELEMENTS.img.shown /\ ELEMENTS.rect.shown /\ ~Loading /\ ~isSelectingImage
    /\ APP_STATE.currentStage \in {1, 2}
    /\ RPos(ELEMENTS.rect.width) /\ RPos(ELEMENTS.rect.height)
    /\ InsideBounds(ELEMENTS.rect, imgRect(ELEMENTS))
    /\ ActiveCrop = DisplayedCrop

IsInteger(a) == a[2] = 1

\* the rectangle has integer coordinates and ends inside the natural image
InsideNatural(crop, E) ==
    /\ \A f \in {"x", "y", "width", "height"} : IsInteger(crop[f])
    /\ RLe(RAdd(crop.x, crop.width), I(E.img.naturalWidth))
    /\ RLe(RAdd(crop.y, crop.height), I(E.img.naturalHeight))

\* C18: every native-space rectangle computed for the backend from a stored
\* display rectangle inside the display bounds (the crop request, the crop
\* of the temporary Meural preview) has integer coordinates, with
\* x + width <= naturalWidth and y + height <= naturalHeight
C18_SentInsideNatural ==
    [][DisplayRectStored =>
          \A t \in tasks' \ tasks :
              t.kind \in {"cropResp", "meuralDialog"} => InsideNatural(t.data, ELEMENTS)]_vars

\* at most one display pixel apart
WithinOnePixel(a, b) == RLe(RSub(a, b), I(1)) /\ RLe(RSub(b, a), I(1))

\* the rectangle on screen relative to the displayed image
RelativeRect(E) ==
    LET b == imgRect(E)
    IN  [x |-> RSub(E.rect.left, b.left), y |-> RSub(E.rect.top, b.top),
         width |-> E.rect.width, height |-> E.rect.height]

\* the rectangle on screen, converted to native space as performCrop does
\* and projected back to the same displayed image as initCropRectangle does
RoundTrip(E) ==
    RestoredRect(ScaledCrop(RelativeRect(E), E), imgRect(E),
                 E.img.naturalWidth, E.img.naturalHeight)

\* C19: a rectangle inside the display bounds, converted to native space by
\* flooring the scaled coordinates and projected back to display space with
\* the same geometry, differs from the original by at most one display
\* pixel in x, y, width and height, for images displayed smaller or larger
\* than their natural size
C19_RoundTripWithinPixel ==
    (/\ ELEMENTS.img.shown /\ ELEMENTS.rect.shown /\ ~Loading
     /\ RPos(ELEMENTS.rect.width) /\ RPos(ELEMENTS.rect.height)
     /\ getImageBounds(ELEMENTS) = imgRect(ELEMENTS)
     /\ InsideBounds(ELEMENTS.rect, imgRect(ELEMENTS)))
    => \A f \in {"left", "top", "width", "height"} :
           WithinOnePixel(RoundTrip(ELEMENTS)[f], ELEMENTS.rect[f])

-----------------------------------------------------------------------------
(* Properties of the reflow *)

\* the resize timer fires while the editor shows a rectangle inside the
\* display bounds for a crop of the active stage, and the fit changes the
\* displayed image size
Reflow(t) ==
    /\ RunResizeTimer(t)
    /\ ~APP_STATE.syncing /\ ~Loading /\ ~isSelectingImage
    /\ APP_STATE.currentStage \in {1, 2}
    /\ ELEMENTS.img.shown /\ ELEMENTS.rect.shown
    /\ RPos(ActiveCrop.width) /\ RPos(ActiveCrop.height)
    /\ RPos(ELEMENTS.img.width) /\ RPos(ELEMENTS.img.height)
    /\ InsideBounds(ELEMENTS.rect, imgRect(ELEMENTS))
    /\ ELEMENTS'.img.width # ELEMENTS.img.width

\* C20: when a reflow changes the displayed image size while a crop exists
\* for the active stage, the rectangle shown again has the previous display
\* width and height scaled by new / old display size (within rounding)
C20_ReflowScalesRect ==
    [][\A t \in tasks : Reflow(t) =>
          /\ ELEMENTS'.rect.shown
          /\ Near(ELEMENTS'.rect.width,
                  RDiv(RMul(ELEMENTS.rect.width, ELEMENTS'.img.width),
                       ELEMENTS.img.width))
          /\ Near(ELEMENTS'.rect.height,
                  RDiv(RMul(ELEMENTS.rect.height, ELEMENTS'.img.height),
                       ELEMENTS.img.height))]_vars

-----------------------------------------------------------------------------
(* Properties of initCropRectangle *)

\* the step runs a callback that calls initCropRectangle on a loaded image
\* (a stage entry, its retry, or a reflow)
InitKinds == {"rafStage", "retryInit", "resizeTimer", "fitApply"}
Initialising ==
    /\ \E t \in tasks \ tasks' :
          /\ t.kind \in InitKinds
          /\ t.kind = "fitApply" => ELEMENTS.rect.shown
    /\ ~APP_STATE.syncing /\ APP_STATE.currentStage \in {1, 2}
    /\ ELEMENTS.img.complete /\ ELEMENTS.img.naturalWidth > 0

\* the stored crop of the active stage is not zero
HasStoredCrop == RPos(ActiveCrop.width) /\ RPos(ActiveCrop.height)

\* C21: after every reflow or stage entry that restores the rectangle from a
\* stored non-zero crop, the displayed rectangle lies inside the display
\* bounds the image then has
C21_RestoredInsideBounds ==
    [][Initialising /\ HasStoredCrop =>
          /\ ELEMENTS'.rect.shown
          /\ InsideBounds(ELEMENTS'.rect, imgRect(ELEMENTS'))]_vars

\* width = height x ratio, within one pixel
HasRatio(width, height, ratio) == Near(width, RMul(height, ratio))

\* initCropRectangle is called for the orientation of the current stage, on
\* a displayed image
InitialisingStage ==
    /\ Initialising
    /\ \A t \in tasks \ tasks' :
          t.kind \in {"rafStage", "retryInit"} =>
              t.ori = StageOrientation(APP_STATE.currentStage)
    /\ ELEMENTS'.img.shown
    /\ RPos(ELEMENTS'.img.width) /\ RPos(ELEMENTS'.img.height)

\* the stored crop of the stage the step leaves
ActiveCropAfter ==
    IF APP_STATE'.currentStage = 1 THEN APP_STATE'.portraitCrop
    ELSE APP_STATE'.landscapeCrop

\* C22: every rectangle that initCropRectangle displays and stores for an
\* orientation, restored from a stored crop of that orientation's ratio or
\* computed as a default, has width / height equal to the configured ratio
\* of the orientation
C22_InitKeepsRatio ==
    [][InitialisingStage
       /\ (HasStoredCrop => HasRatio(ActiveCrop.width, ActiveCrop.height, TargetRatio))
       => /\ HasRatio(ELEMENTS'.rect.width, ELEMENTS'.rect.height, TargetRatio)
          /\ HasRatio(ActiveCropAfter.width, ActiveCropAfter.height, TargetRatio)]_vars

-----------------------------------------------------------------------------
(* Properties of the resize listeners *)

\* C23: a burst of resize events causes exactly one fit of the image and one
\* computation of the rectangle, both after the burst has ended: since the
\* last resize event the image has been fitted at most once and the
\* rectangle computed at most once
C23_OneRecomputation == hist.fits <= 1 /\ hist.inits <= 1

\* the largest rectangle of ratio r in a W x H image: (H * r) x H when
\* W / H > r, otherwise W x (W / r)
LargestFit(W, H, r) ==
    IF RLt(r, RDiv(W, H)) THEN [width |-> RMul(H, r), height |-> H]
    ELSE [width |-> W, height |-> RDiv(W, r)]

\* the rectangle is centred on the image
Centred(rect, b) ==
    /\ RSub(rect.left, b.left)
         = RSub(RAdd(b.left, b.width), RAdd(rect.left, rect.width))
    /\ RSub(rect.top, b.top)
         = RSub(RAdd(b.top, b.height), RAdd(rect.top, rect.height))

\* the rectangle touches two opposite edges of the image
TouchesOpposite(rect, b) ==
    \/ rect.left = b.left /\ RAdd(rect.left, rect.width) = RAdd(b.left, b.width)
    \/ rect.top = b.top /\ RAdd(rect.top, rect.height) = RAdd(b.top, b.height)

-----------------------------------------------------------------------------
(* Properties of the samples of a gesture (crop-engine.js:441-537) *)

\* a step that delivers the pointer position (x, y) to the listeners (they
\* keep their closures and schedule nothing)
PointerAt(x, y) ==
    /\ handlers' = handlers /\ tasks' = tasks
    /\ MouseMove(x, y) \/ TouchMove(x, y)

\* the position and size of a rectangle
Box(rect) ==
    [left |-> rect.left, top |-> rect.top, width |-> rect.width, height |-> rect.height]

\* the bottom-right handle dragged by dx from (L, T, W, H): width
\* max(50, W + dx), height = width / ratio, top-left corner (L, T)
BottomRightDrag(L, T, W, ratio, dx) ==
    LET width == IF W + dx < 50 THEN 50 ELSE W + dx
    IN  [left |-> I(L), top |-> I(T), width |-> I(width),
         height |-> RDiv(I(width), ratio)]

\* the scenario: (100, 100, 400, 711) at ratio 0.5625 dragged by (+50, 0)
\* inside a 2000 x 3000 image
ScenarioClosure ==
    [NewClosure EXCEPT !.isResizing = TRUE, !.currentHandle = "bottom-right",
                       !.startLeft = 100, !.startTop = 100,
                       !.startWidth = 400, !.startHeight = 711]
ScenarioBounds == [left |-> Zero, top |-> Zero, width |-> I(2000), height |-> I(3000)]

\* C25: dragging the bottom-right handle by (dx, dy) from the rectangle
\* (L, T, W, H) recorded at the pointer-down gives width max(50, W + dx),
\* height = width / ratio and the top-left corner (L, T) unchanged whenever
\* that result fits inside the image; (100, 100, 400, 711) at ratio 0.5625
\* dragged by (+50, 0) inside a 2000 x 3000 image gives width 450,
\* height 800 and the corner (100, 100)
C25_BottomRightDrag ==
    [][/\ ResizeRect(ScenarioClosure, ScenarioBounds, Q(5625, 10000), 50)
            = [left |-> I(100), top |-> I(100), width |-> I(450), height |-> I(800)]
       /\ \A x \in PointerXs, y \in PointerYs :
            LET c == Gesture
                r == BottomRightDrag(c.startLeft, c.startTop, c.startWidth,
                                     TargetRatio, x - c.startX)
            IN  (/\ GestureActive /\ hist.downs = 1
                 /\ c.isResizing /\ ~c.isDragging /\ c.currentHandle = "bottom-right"
                 /\ InsideBounds(r, getImageBounds(ELEMENTS))
                 /\ PointerAt(x, y))
                => Box(ELEMENTS'.rect) = r]_vars

\* C25 (witness): a sample of a bottom-right drag has made the rectangle
\* wider than it was at the pointer-down, its top-left corner in place
C25_Witness ==
    /\ ResizeSample /\ Gesture.currentHandle = "bottom-right"
    /\ ELEMENTS.rect.left = I(Gesture.startLeft)
    /\ ELEMENTS.rect.top = I(Gesture.startTop)
    /\ RLt(I(Gesture.startWidth), ELEMENTS.rect.width)
    /\ ELEMENTS.rect.width = RMul(ELEMENTS.rect.height, TargetRatio)

\* C26: during a move gesture every sample places the rectangle at
\* left = clamp(startLeft + dx, imgLeft, imgLeft + imgWidth - width) and
\* top = clamp(startTop + dy, imgTop, imgTop + imgHeight - height), each axis
\* on its own, and leaves the width and the height unchanged
C26_MoveClamps ==
    [][\A x \in PointerXs, y \in PointerYs :
          LET c == Gesture
              b == getImageBounds(ELEMENTS)
              rect == ELEMENTS.rect
          IN  (/\ GestureActive /\ hist.downs = 1 /\ c.isDragging
               /\ PointerAt(x, y))
              => /\ ELEMENTS'.rect.left =
                      Clamp(I(c.startLeft + (x - c.startX)), b.left,
                            RSub(RAdd(b.left, b.width), rect.width))
                 /\ ELEMENTS'.rect.top =
                      Clamp(I(c.startTop + (y - c.startY)), b.top,
                            RSub(RAdd(b.top, b.height), rect.height))
                 /\ ELEMENTS'.rect.width = rect.width
                 /\ ELEMENTS'.rect.height = rect.height]_vars

\* the rectangle the listeners compute for the pointer position (x, y) from
\* the DOM state E
SampleFrom(E, x, y) == Box(MoveAll(handlers, 1, APP_STATE, E, x, y).rect)

\* C27: within one gesture, delivering the same pointer position twice in
\* succession produces the same rectangle as delivering it once, and the
\* rectangle of a sample is the one the same pointer position produces from
\* the rectangle on screen at the pointer-down: it depends on no earlier
\* sample of the gesture
C27_SampleIdempotent ==
    [][\A x \in PointerXs, y \in PointerYs :
          (GestureActive /\ hist.downs = 1 /\ PointerAt(x, y))
          => /\ SampleFrom(ELEMENTS', x, y) = Box(ELEMENTS'.rect)
             /\ SampleFrom([ELEMENTS EXCEPT !.rect = hist.downRect], x, y)
                  = Box(ELEMENTS'.rect)]_vars

BothCrops == <<APP_STATE.portraitCrop, APP_STATE.landscapeCrop>>

\* the stored crop of the stage that is not the current one
OtherCrop ==
    IF APP_STATE.currentStage = 1 THEN APP_STATE.landscapeCrop
    ELSE APP_STATE.portraitCrop

\* C28: pointer-move samples never modify portraitCrop or landscapeCrop;
\* during an active gesture only the displayed rectangle changes and the
\* stored crop of the current stage is written at the release only; a
\* pointer move with no active gesture changes neither the displayed
\* rectangle nor a stored crop
C28_SamplesKeepStoredCrop ==
    [][/\ \A x \in PointerXs, y \in PointerYs :
            /\ GestureActive /\ PointerAt(x, y) =>
                  BothCrops' = BothCrops /\ APP_STATE' = APP_STATE
            /\ ~GestureActive =>
                  Sample(x, y).E = ELEMENTS /\ Sample(x, y).A = APP_STATE
       /\ GestureActive /\ BothCrops' # BothCrops =>
            /\ MouseUp \/ TouchEnd
            /\ OtherCrop' = OtherCrop]_vars

\* C28 (witness): a move sample has displaced the rectangle of the
\* pointer-down while the stored crop is still the one of the pointer-down
C28_Witness ==
    /\ MoveSample
    /\ ELEMENTS.rect.top # hist.downRect.top
    /\ ActiveCrop.y = RSub(hist.downRect.top, ELEMENTS.dataset.imgTop)
    /\ ActiveCrop.height = hist.downRect.height

-----------------------------------------------------------------------------
(* Properties of the release (crop-engine.js:539-613) *)

\* the crop lies inside a displayed image of the given size
CropInside(crop, width, height) ==
    /\ RLe(Zero, crop.x) /\ RLe(Zero, crop.y)
    /\ RLe(RAdd(crop.x, crop.width), width)
    /\ RLe(RAdd(crop.y, crop.height), height)

\* C29: at every release of a gesture, by mouse or by touch, the position is
\* clamped to the image bounds before the crop is committed: the committed
\* crop of the current stage has 0 <= x, 0 <= y, x + width <= the displayed
\* width and y + height <= the displayed height of the image
C29_ReleaseCommitsInside ==
    [][GestureActive /\ hist.downs = 1 /\ hist.startInside /\ (MouseUp \/ TouchEnd) =>
          CropInside(ActiveCropAfter, getImageBounds(ELEMENTS').width,
                     getImageBounds(ELEMENTS').height)]_vars

-----------------------------------------------------------------------------
(* Properties of the load guard (crop-engine.js:161-168) *)

\* the step runs the retry that initCropRectangle scheduled for itself
Retrying == \E t \in tasks \ tasks' : t.kind = "retryInit"

\* the step runs a callback that calls initCropRectangle
CallsInit ==
    \E t \in tasks \ tasks' :
        \/ t.kind = "retryInit"
        \/ t.kind = "rafStage" /\ ~APP_STATE.syncing
        \/ t.kind = "resizeTimer" /\ APP_STATE.currentStage \in {1, 2}

\* C30: while the natural dimensions of the image are unresolved,
\* initCropRectangle neither displays a rectangle nor writes a stored crop
\* but re-schedules itself; once the dimensions have resolved, the retry
\* initialises the rectangle of the stage that is then current
C30_LoadGuard ==
    [][/\ CallsInit /\ ~Loaded =>
            /\ Box(ELEMENTS'.rect) = Box(ELEMENTS.rect)
            /\ BothCrops' = BothCrops
            /\ \E u \in tasks' : u.kind = "retryInit"
       /\ Retrying /\ ~Loaded => ELEMENTS'.rect.shown = ELEMENTS.rect.shown
       /\ Retrying /\ Loaded /\ APP_STATE.currentStage \in {1, 2}
          /\ ELEMENTS.img.shown /\ RPos(ELEMENTS.img.width) /\ RPos(ELEMENTS.img.height)
          => /\ ELEMENTS'.rect.shown
             /\ ActiveCropAfter = RelativeRect(ELEMENTS')
             /\ ActiveCrop = ZeroCrop =>
                  HasRatio(ELEMENTS'.rect.width, ELEMENTS'.rect.height, TargetRatio)]_vars

-----------------------------------------------------------------------------
(* Properties of the action buttons (ui-controller.js:108-158,
   image-loader.js:389-393, 527-537) *)

\* C31: whenever the stage is Portrait or Landscape and an image is shown in
\* the editor, the Crop-and-Continue button is visible and the Save button is
\* hidden (in particular after Back from Review, after Reset from Review and
\* after the redirect from Review to Portrait)
C31_CropStageButtons ==
    APP_STATE.currentStage \in {1, 2} /\ ELEMENTS.editorShown /\ ELEMENTS.img.shown =>
        ELEMENTS.btnCrop /\ ~ELEMENTS.btnSave

-----------------------------------------------------------------------------
(* Progress of a selection (image-loader.js:247-412, crop-engine.js:64-73) *)

\* the steps the browser takes by itself: fetches settle, the load of the
\* image ends with a load or an error event, timers and animation frames fire
Deferred ==
    \/ \E t \in tasks : \E found \in StoredCrops(t.img, t.ori) : CropDataArrives(t, found)
    \/ \E t \in tasks : CropDataFails(t)
    \/ \E t \in tasks : \E outcome \in SyncOutcomes : SyncArrives(t, outcome)
    \/ ImageLoad
    \/ ImageError
    \/ \E t \in tasks : RunRafStage(t)
    \/ \E t \in tasks : RunRetryInit(t)
    \/ \E t \in tasks : RunSetup(t)
    \/ \E t \in tasks : RunResizeTimer(t)
    \/ \E t \in tasks : RunDebouncedFit(t)
    \/ \E t \in tasks : RunFitApply(t)
    \/ \E t \in tasks : RunFitRetry(t)

\* an identifier that no image of the library carries
Unknown == "Z"

\* selections, syncs and reflows, and what the browser does after them
LiveBudget ==
    [events |-> MaxEvents, selects |-> MaxSelects, clicks |-> 0, resizes |-> MaxResizes,
     syncs |-> MaxSyncs + 1, gestures |-> 0]

InitLive == \E c \in Containers : Start(StartWorld(c, LiveBudget, Images))

NextLive ==
    \/ \E id \in Images \cup {Unknown} : ClickImage(id)
    \/ ClickSync
    \/ \E c \in Containers : WindowResize(c)
    \/ Deferred

\* the load of the image ends, with an error or a load event
LoadEnds == ImageError \/ ImageLoad

\* the fetch of the stored crops settles
CropDataSettles ==
    \E t \in tasks :
        \/ CropDataFails(t)
        \/ \E found \in StoredCrops(t.img, t.ori) : CropDataArrives(t, found)

\* the sync request is answered
SyncSettles == \E t \in tasks : \E outcome \in SyncOutcomes : SyncArrives(t, outcome)

\* the session in which no fetch and no load of an image stays pending for
\* ever
SpecLive ==
    /\ InitLive /\ [][NextLive]_vars
    /\ WF_vars(CropDataSettles) /\ WF_vars(LoadEnds) /\ WF_vars(SyncSettles)

\* C32: every accepted selection eventually clears the selection-in-progress
\* flag, whether the load succeeds or fails, also when a reflow runs while
\* the image is loading
C32_SelectionEnds == isSelectingImage ~> ~isSelectingImage

\* the load of the selected image has succeeded: its onload handler has
\* displayed the image (image-loader.js:351-405)
LoadSucceeded == ELEMENTS.editorShown /\ ELEMENTS.img.shown /\ Loaded

\* a call of initCropRectangle is still to come
InitPending == \E t \in tasks : t.kind \in {"rafStage", "retryInit", "fitApply", "resizeTimer"}

\* C33: after an accepted selection whose image loads successfully, the crop
\* rectangle is eventually initialised (displayed, or its initialisation is
\* still scheduled), even when a sync starts between the selection and the
\* completion of the load
C33_LoadInitialisesRectangle ==
    LoadSucceeded ~> (ELEMENTS.rect.shown \/ InitPending)

-----------------------------------------------------------------------------
(* Properties of the sync (meural-service.js:279-379) *)

\* the sync requests in flight
SyncRequests == {t \in tasks : t.kind = "syncResp"}

\* what a call of syncWithImmich made by a further click leaves of the
\* requests and of the two flags
SyncCall(w) ==
    LET after == syncWithImmich(Count(w, "syncs"))
    IN  <<after.T, after.sip, after.A.syncing>>

\* C34: at most one sync request is in flight; syncInProgress and
\* APP_STATE.syncing always hold the same value, set while the request is in
\* flight and both cleared when it ends, whether the server reports success,
\* reports success = false or the request throws; a call of syncWithImmich
\* while a sync is in flight, or before the initialisation, sends no request
\* and changes neither flag
C34_OneSync ==
    /\ [](/\ Cardinality(SyncRequests) <= 1
          /\ syncInProgress = APP_STATE.syncing
          /\ APP_STATE.syncing <=> SyncRequests # {}
          /\ APP_STATE.syncing =>
                SyncCall(World) = <<tasks, syncInProgress, APP_STATE.syncing>>
          /\ hist.events = 0 =>
                SyncCall([World EXCEPT !.A.initialized = FALSE]) = <<tasks, FALSE, FALSE>>)
    /\ [][SyncRequests' # SyncRequests /\ SyncRequests # {} =>
              ~syncInProgress' /\ ~APP_STATE'.syncing /\ SyncRequests' = {}]_vars

\* C34 (witness): a sync that ended with an error has been followed by a
\* second sync, whose request is in flight
C34_Witness ==
    /\ ELEMENTS.alert = "sync" /\ hist.syncs = 2
    /\ APP_STATE.syncing /\ SyncRequests = {SyncRequest(2)}

-----------------------------------------------------------------------------
(* Properties of the status of an image (crop-engine.js:619-626, 730-743) *)

\* the step is the arrival of the response to crop request t
CropResponseOf(t) == t \in tasks \ tasks' /\ t.kind = "cropResp"

\* C35: the status update of a crop is applied to the image the request was
\* issued for: the response to a crop of one image leaves the status of
\* every other image of the library unchanged, also when another image has
\* been selected in the meantime
C35_StatusOfRequestedImage ==
    [][\A t \in tasks :
          CropResponseOf(t) =>
             \A id \in Images \ {t.img} :
                 APP_STATE'.imageList[id] = APP_STATE.imageList[id]]_vars

\* the statuses the server reports for the images of the library
\* (image-loader.js:100-113)
Statuses == {"unprocessed", "portrait", "landscape", "both"}

\* one image of a library processed before is selected and cropped
StatusBudget ==
    [events |-> MaxEvents, selects |-> 1, clicks |-> MaxClicks - 1, resizes |-> 0,
     syncs |-> 0, gestures |-> 0]

InitStatus ==
    \E c \in Containers : \E list \in [Images -> Statuses] :
        Start([StartWorld(c, StatusBudget, Images) EXCEPT !.A.imageList = list])

NextStatus ==
    \/ \E id \in Images : ClickImage(id)
    \/ \E t \in tasks : \E found \in StoredCrops(t.img, t.ori) : CropDataArrives(t, found)
    \/ ImageLoad
    \/ \E t \in tasks : RunRafStage(t)
    \/ \E t \in tasks : RunSetup(t)
    \/ ClickCrop
    \/ \E t \in tasks : \E success \in BOOLEAN : CropArrives(t, success)

SpecStatus == InitStatus /\ [][NextStatus]_vars

\* C36: a successful crop of one orientation never removes the other
\* orientation from the status of the image: a status 'landscape' or 'both'
\* before a successful portrait crop is 'both' after it, and symmetrically
\* for a landscape crop, whatever the order in which the responses arrive
C36_StatusKeepsOtherOrientation ==
    [][\A t \in tasks :
          /\ t.kind = "cropResp" /\ APP_STATE.currentImage # "none"
          /\ APP_STATE.imageList[APP_STATE.currentImage] \in
                 {"both", IF t.ori = "portrait" THEN "landscape" ELSE "portrait"}
          /\ CropArrives(t, TRUE)
          => APP_STATE'.imageList[APP_STATE.currentImage] = "both"]_vars

-----------------------------------------------------------------------------
(* Properties of the deferred initialisations (crop-engine.js:161-189,
   220-266, ui-controller.js:117-138) *)

\* the stored crops that initCropRectangle leaves when it is called with the
\* ratio of the orientation of the current stage
StageInitCrops ==
    LET after == initCropRectangle(World, StageOrientation(APP_STATE.currentStage))
    IN  <<after.A.portraitCrop, after.A.landscapeCrop>>

\* C37: every crop that initCropRectangle writes for an orientation is
\* computed with the ratio of that orientation: a deferred call (animation
\* frame or retry) scheduled at one stage and run at the other writes the
\* crop that a call with the ratio of the stage it runs at would write
C37_DeferredInitUsesStageRatio ==
    [][\A t \in tasks \ tasks' :
          /\ t.kind \in {"rafStage", "retryInit"}
          /\ ~APP_STATE.syncing /\ Loaded
          /\ APP_STATE.currentStage \in {1, 2}
          => BothCrops' = StageInitCrops]_vars

\* C38: while the stage is Review, the crop rectangle and the overlay stay
\* hidden: no timer, animation frame, retry or reflow left pending by an
\* earlier stage makes them visible
C38_ReviewHidesRectangle ==
    APP_STATE.currentStage = 3 => ~ELEMENTS.rect.shown /\ ~ELEMENTS.overlayShown

-----------------------------------------------------------------------------
(* Properties of a selection that loads nothing (image-loader.js:249-282) *)

\* C39: a selectImage call that does not lead to an image being loaded,
\* because it is rejected during a sync or a pending selection or because no
\* image of the library carries the identifier, leaves the current image,
\* the stage and both stored crops unchanged
C39_FruitlessSelectionKeepsSession ==
    [][/\ Selecting
       /\ APP_STATE.syncing \/ isSelectingImage \/ ClickImage(Unknown)
       => Session' = Session]_vars

-----------------------------------------------------------------------------
(* Properties of the listener registration (crop-engine.js:268-273,
   355-580) *)

\* C40: however many times the rectangle is re-initialised, at most one set
\* of gesture listeners is registered, so that one pointer move applies one
\* solver step and one release commits once
C40_OneListenerSet == Len(handlers) <= 1

====
